---- MODULE Spec2Model ----
(***************************************************************************)
(* A model of pubcrawl: Publisher (a fan-out channel over a JavaScript     *)
(* Set of callbacks), Network (a TypedMap of key -> Publisher plus one     *)
(* Publisher of followers), Store (a value and a Publisher) and Client (a  *)
(* TypedMap of key -> Store plus one Publisher of followers).              *)
(*                                                                         *)
(* Execution is single threaded and synchronous.  publish runs the         *)
(* callbacks one after the other on the caller's stack, and a callback's   *)
(* body may itself call any operation of the object (subscribe, an         *)
(* unsubscribe token, publish, clear), return, or throw.  The model keeps  *)
(* the call stack explicitly: a frame per Set.forEach in progress, per     *)
(* running callback and per Network.publish in progress.  An operation is  *)
(* called either by top-level code (empty stack) or by the body of the     *)
(* callback whose frame is on top.                                         *)
(***************************************************************************)
EXTENDS Integers, Sequences, FiniteSets, TLC

\* Bounds of the model: how many calls of the operations (subscribe, follow, a
\* token, publish, set, clear, fullClear) one behaviour makes, by top-level code
\* and by the bodies of callbacks together: on a Publisher, on a Network, on a
\* Store, on a Client, and on a Network and a Client used together.
MaxPublisherCalls == 7
MaxNetworkCalls == 5
MaxStoreCalls == 6
MaxClientCalls == 4
MaxRegistryCalls == 4

\* The callbacks and Network keys the behaviours draw from.  The library never
\* looks into the arguments of a publish: every publish call passes a value of
\* its own (the number of the call), so that the arguments of two calls are
\* never confused.
Callbacks == {"f", "g"}
Args == 1..(MaxPublisherCalls + MaxNetworkCalls + MaxStoreCalls + MaxClientCalls)
Keys == {"a", "b"}

VARIABLES
    subscribers,  \* heap of Publisher objects: subscribers[p] is the Set
                  \* #subscribers of Publisher p, as its insertion-ordered list
    publishers,   \* Network.#publishers: key -> Publisher object (0: no entry)
    stack,        \* the call stack, bottom first
    tokens,       \* the closures returned by subscribe, in the order handed out
    made,         \* how many calls of operations were made so far
    published,    \* how many of them were publish calls
    ghost,        \* per Publisher: history of its registrations
    heard,        \* per callback: the last Network.publish or Client.set call
                  \* it was invoked for as a follower (history; 0: none)
    stores,       \* Client.#stores: key -> Store object (0: no entry)
    value,        \* heap of Store objects: value[s] is #value of Store s; the
                  \* #publisher of Store s is the Publisher object s
    map,          \* TypedMap.#map of a TypedMap used on its own: the entries
                  \* of the Map in insertion order, deleted ones emptied
    iterators     \* the iterators that keys(), values() and entries() of
                  \* that TypedMap returned

vars == <<subscribers, publishers, stack, tokens, made, published, ghost, heard, stores,
          value, map, iterators>>

\* Network.#followers is the Publisher object allocated first; the standalone
\* Publisher of the Publisher specification is that same object.
followers == 1

\* Client.#followers is the Publisher object allocated second.
Client_followers == 2

\* JavaScript's undefined, among values that are numbers: the calls of set pass
\* 1, 2, ...
undefined == 0

Range(s) == {s[i] : i \in 1..Len(s)}

\* The callbacks of a list of Set elements or of invocations, in order.
Cbs(s) == [i \in 1..Len(s) |-> s[i].cb]

CbSet(s) == {s[i].cb : i \in 1..Len(s)}

Count(s, cb) == Cardinality({i \in 1..Len(s) : s[i].cb = cb})

(***************************************************************************)
(* The JavaScript Set behind Publisher.#subscribers.  A Set keeps its      *)
(* elements in insertion order; add appends unless the value is already    *)
(* present (then it changes nothing, the value keeps its place), delete    *)
(* removes the value, clear removes all.  An element is held with the      *)
(* token `tok` of the subscribe call that added it (history: which         *)
(* registration the element stands for); membership looks at cb alone.     *)
(***************************************************************************)
SetAddFront(s, cb, tok) ==
    IF cb \in CbSet(s) THEN s ELSE <<[cb |-> cb, tok |-> tok]>> \o s

SetAdd(s, cb, tok) ==
    IF cb \in CbSet(s) THEN s ELSE Append(s, [cb |-> cb, tok |-> tok])

SetDeleteNothing(s, cb) == s

SetDelete(s, cb) == SelectSeq(s, LAMBDA e : e.cb # cb)

SetClearKeepsFirst(s) == IF Len(s) = 0 THEN s ELSE <<s[1]>>

SetClear(s) == <<>>

(***************************************************************************)
(* Set.prototype.forEach walks the live Set: it visits the elements that   *)
(* are present when it reaches them.  An element deleted before its turn   *)
(* is skipped, an element added during the walk is visited, an element     *)
(* deleted and added again is visited again.  With the Set held as the     *)
(* list of its present elements, a walk is the number `index` of elements  *)
(* of that list already passed; a delete of an element already passed      *)
(* moves the walk back by one, a clear moves it to the start.              *)
(***************************************************************************)
IndexAfterDeleteStays(s, cb, index) == index

IndexAfterDelete(s, cb, index) ==
    IF \E i \in 1..index : i <= Len(s) /\ s[i].cb = cb THEN index - 1 ELSE index

IndexAfterClear(s, index) == 0

(***************************************************************************)
(* Frames.  A forEach frame is one Publisher.publish call in progress: the  *)
(* Publisher, the arguments, the walk, for whom the call is made (role:    *)
(* "direct", or for the Network.publish call `net` to the "subscriber"s of *)
(* its key or to the "follower"s), and the history of the call:            *)
(*   snapshot  the Set when the call began;                                *)
(*   regs      per callback, the tokens handed out for it and neither      *)
(*             invoked nor cleared when the call began;                    *)
(*   dead      the callbacks revoked when the call began (see ghost) and   *)
(*             not subscribed since;                                       *)
(*   wiped     the tokens cleared when the call began;                     *)
(*   changed   subscribe, a token or clear was called on the Publisher     *)
(*             while the call ran;  cleared: clear was;                    *)
(*   removed   the callbacks taken out of the Set while the call ran;      *)
(*   invoked   the invocations made so far: callback, the registration it  *)
(*             stood for, the arguments passed.                            *)
(***************************************************************************)
ForEachFrame(p, params, snapshot, regs, dead, wiped, role, n) ==
    [kind |-> "forEach", pub |-> p, params |-> params, index |-> 0,
     snapshot |-> snapshot, regs |-> regs, dead |-> dead, wiped |-> wiped,
     changed |-> FALSE, cleared |-> FALSE, removed |-> {}, invoked |-> <<>>,
     cb |-> "", role |-> role, net |-> n]

CallbackFrame(p, cb, role, n) ==
    [kind |-> "cb", pub |-> p, cb |-> cb, role |-> role, net |-> n]

(***************************************************************************)
(* A netPublish frame is one Network.publish(event, ...args) in progress.  *)
(* todo lists the Publisher.publish calls it has still to make.  History:  *)
(*   hadChannel, keys  whether #publishers held the event, and the keys it *)
(*                     held, when the call began;                          *)
(*   audience    the followers registered when the call began;             *)
(*   unfollowed  the followers taken out of the Set while the call ran;    *)
(*   nested      the call was made by a callback, or a callback made a     *)
(*               Network.publish call while it ran;                        *)
(*   events      the invocations made for the call so far, in order, each  *)
(*               with the call the callback last heard of as a follower.   *)
(***************************************************************************)
NetFrame(n, event, args, todo, hadChannel, keys, audience, nested) ==
    [kind |-> "netPublish", pub |-> 0, net |-> n, todo |-> todo,
     event |-> event, args |-> args, hadChannel |-> hadChannel, keys |-> keys,
     audience |-> audience, unfollowed |-> {}, nested |-> nested,
     events |-> <<>>]

Top == stack[Len(stack)]

Pop(stk) == SubSeq(stk, 1, Len(stk) - 1)

\* Code runs either at top level or in the body of the callback on top.
CallerReady == IF Len(stack) = 0 THEN TRUE ELSE Top.kind = "cb"

\* The caller makes one more call of an operation.
Call(limit) ==
    /\ CallerReady
    /\ made < limit
    /\ made' = made + 1

\* The forEach of the publish call on top has passed every element: the call
\* is about to return.
Returning ==
    IF Len(stack) = 0 THEN FALSE
    ELSE Top.kind = "forEach" /\ Top.index >= Len(subscribers[Top.pub])

\* The stack after a call of cb's token (delete), of subscribe(cb) or of clear
\* on Publisher p: the walks in progress on p move with the Set, and the
\* history of the calls in progress on p records the change.
StackAfterDelete(stk, p, cb) ==
    [i \in 1..Len(stk) |->
        IF stk[i].kind = "forEach" /\ stk[i].pub = p
        THEN [stk[i] EXCEPT
                !.index = IndexAfterDelete(subscribers[p], cb, @),
                !.changed = TRUE,
                !.removed = @ \cup (CbSet(subscribers[p]) \cap {cb})]
        ELSE IF \/ stk[i].kind = "netPublish" /\ p = followers
                \/ stk[i].kind = "clientSet" /\ p = Client_followers
        THEN [stk[i] EXCEPT
                !.unfollowed = @ \cup (CbSet(subscribers[p]) \cap {cb})]
        ELSE stk[i]]

StackAfterAdd(stk, p, cb) ==
    [i \in 1..Len(stk) |->
        IF stk[i].kind = "forEach" /\ stk[i].pub = p
        THEN [stk[i] EXCEPT !.changed = TRUE, !.dead = @ \ {cb}]
        ELSE stk[i]]

StackAfterClear(stk, p) ==
    [i \in 1..Len(stk) |->
        IF stk[i].kind = "forEach" /\ stk[i].pub = p
        THEN [stk[i] EXCEPT
                !.index = IndexAfterClear(subscribers[p], @),
                !.changed = TRUE, !.cleared = TRUE,
                !.removed = @ \cup CbSet(subscribers[p])]
        ELSE IF stk[i].kind = "netPublish" /\ p = followers
        THEN [stk[i] EXCEPT !.unfollowed = @ \cup CbSet(subscribers[p])]
        ELSE stk[i]]

(***************************************************************************)
(* History of a Publisher p, ghost[p]:                                     *)
(*   revoked  the callbacks of which a token was invoked, with no          *)
(*            subscribe of the callback since.                             *)
(* History of a token: used (it was invoked), cleared (its Publisher was   *)
(* cleared after it was handed out).                                       *)
(***************************************************************************)
NoGhost == [revoked |-> {}]

\* History of a Publisher that Network.subscribe constructs: the key it is
\* constructed for.
ChannelGhost(key) == [revoked |-> {}, key |-> key]

\* Tokens of cb on Publisher p that were neither invoked nor cleared.
LiveTokens(p, cb) ==
    {t \in 1..Len(tokens) :
        /\ tokens[t].pub = p /\ tokens[t].cb = cb
        /\ ~tokens[t].used /\ ~tokens[t].cleared}

WipedTokens(p) ==
    {t \in 1..Len(tokens) : tokens[t].pub = p /\ tokens[t].cleared}

(***************************************************************************)
(* Publisher                                                               *)
(***************************************************************************)

\* subscribe(cb) on Publisher p of the heap `heap` (the heap as it is, or the
\* heap with a Publisher just constructed by Network.subscribe).
Publisher_subscribe(p, cb, heap, gh) ==
    /\ subscribers' = [heap EXCEPT ![p] = SetAdd(@, cb, Len(tokens) + 1)]
    /\ tokens' = Append(tokens,
            [pub |-> p, cb |-> cb, used |-> FALSE, cleared |-> FALSE])
    /\ stack' = StackAfterAdd(stack, p, cb)
    /\ ghost' = [gh EXCEPT ![p].revoked = @ \ {cb}]

\* The closure subscribe returned: this.#subscribers.delete(cb).
Publisher_unsubscribe(t) ==
    LET p == tokens[t].pub
        cb == tokens[t].cb
    IN  /\ subscribers' = [subscribers EXCEPT ![p] = SetDelete(@, cb)]
        /\ stack' = StackAfterDelete(stack, p, cb)
        /\ tokens' = [tokens EXCEPT ![t].used = TRUE]
        /\ ghost' = [ghost EXCEPT ![p].revoked = @ \cup {cb}]
        /\ UNCHANGED <<publishers, published, heard, map, iterators, stores, value>>

\* publish(...params) on Publisher p begins: the forEach begins.  `stk` is the
\* stack of the caller, `role` and `n` say for whom the call is made.
Publisher_publish(p, params, stk, role, n) ==
    /\ stack' = Append(stk,
            ForEachFrame(p, params, Cbs(subscribers[p]),
                [cb \in Callbacks |-> Cardinality(LiveTokens(p, cb))],
                ghost[p].revoked, WipedTokens(p), role, n))

\* The arguments forEach's arrow function passes on: cb(...params).
PassedNothing(params) == <<>>

Passed(params) == params

\* One turn of the forEach: the next present element is called.
ForEachCall ==
    /\ Len(stack) > 0
    /\ Top.kind = "forEach"
    /\ Top.index < Len(subscribers[Top.pub])
    /\ LET e == subscribers[Top.pub][Top.index + 1]
           fr == [Top EXCEPT
                    !.index = @ + 1,
                    !.invoked = Append(@, [cb |-> e.cb, tok |-> e.tok,
                                           params |-> Passed(Top.params)])]
           stk == IF Top.net = 0 THEN stack
                  ELSE [stack EXCEPT ![Len(stack) - 1].events =
                            Append(@, [role |-> Top.role, cb |-> e.cb,
                                       params |-> Passed(Top.params),
                                       prev |-> heard[e.cb]])]
       IN  /\ stack' = Append([stk EXCEPT ![Len(stack)] = fr],
                              CallbackFrame(Top.pub, e.cb, Top.role, Top.net))
           /\ heard' = IF Top.role = "follower"
                       THEN [heard EXCEPT ![e.cb] = Top.net] ELSE heard
           /\ ghost' = IF Top.pub \in DOMAIN value
                       THEN [ghost EXCEPT ![Top.pub].delivered[e.cb] = Top.params[1]]
                       ELSE ghost
    /\ UNCHANGED <<made, subscribers, publishers, tokens, published, stores, value,
                   map, iterators>>

\* The forEach has passed every element: publish returns to its caller.
ForEachReturn ==
    /\ Returning
    /\ stack' = Pop(stack)
    /\ UNCHANGED <<made, subscribers, publishers, tokens, published, ghost, heard,
                   map, iterators, stores, value>>

\* The running callback returns to the forEach that called it.
CallbackReturn ==
    /\ Len(stack) > 0
    /\ Top.kind = "cb"
    /\ stack' = Pop(stack)
    /\ UNCHANGED <<made, subscribers, publishers, tokens, published, ghost, heard,
                   map, iterators, stores, value>>

\* The running callback throws.  No code of the library catches: the error
\* unwinds every forEach and publish above the frame `depth`, which is top-level
\* code (0) or the body of a callback (one that called publish in a try block).
CallbackThrowSwallowed(depth) ==
    /\ Len(stack) > 0
    /\ Top.kind = "cb"
    /\ depth = Len(stack) - 1
    /\ stack' = SubSeq(stack, 1, depth)
    /\ UNCHANGED <<made, subscribers, publishers, tokens, published, ghost, heard,
                   map, iterators, stores, value>>

CallbackThrowRollback(depth) ==
    /\ Len(stack) > 0
    /\ Top.kind = "cb"
    /\ depth < Len(stack)
    /\ IF depth = 0 THEN TRUE ELSE stack[depth].kind = "cb"
    /\ stack' = SubSeq(stack, 1, depth)
    /\ value' = [s \in DOMAIN value |->
                    IF \E i \in (depth + 1)..Len(stack) :
                            stack[i].kind = "forEach" /\ stack[i].pub = s
                    THEN ghost[s].initialValue ELSE value[s]]
    /\ UNCHANGED <<made, subscribers, publishers, tokens, published, ghost, heard,
                   map, iterators, stores>>

CallbackThrow(depth) ==
    /\ Len(stack) > 0
    /\ Top.kind = "cb"
    /\ depth < Len(stack)
    /\ IF depth = 0 THEN TRUE ELSE stack[depth].kind = "cb"
    /\ stack' = SubSeq(stack, 1, depth)
    /\ UNCHANGED <<made, subscribers, publishers, tokens, published, ghost, heard,
                   map, iterators, stores, value>>

\* clear() on Publisher p: this.#subscribers.clear().
Publisher_clear(p) ==
    /\ subscribers' = [subscribers EXCEPT ![p] = SetClear(@)]
    /\ stack' = StackAfterClear(stack, p)
    /\ tokens' = [t \in 1..Len(tokens) |->
            IF tokens[t].pub = p THEN [tokens[t] EXCEPT !.cleared = TRUE]
            ELSE tokens[t]]

(***************************************************************************)
(* The Publisher specification: one Publisher, called by top-level code    *)
(* and by the bodies of its own callbacks.                                 *)
(***************************************************************************)
Subscribe(cb) ==
    /\ Call(MaxPublisherCalls)
    /\ Publisher_subscribe(followers, cb, subscribers, ghost)
    /\ UNCHANGED <<publishers, published, heard, map, iterators, stores, value>>

Unsubscribe(t) ==
    /\ Call(MaxPublisherCalls)
    /\ Publisher_unsubscribe(t)

Publish(x) ==
    /\ Call(MaxPublisherCalls)
    /\ x = published + 1
    /\ published' = x
    /\ Publisher_publish(followers, <<x>>, stack, "direct", 0)
    /\ UNCHANGED <<subscribers, publishers, tokens, ghost, heard, map, iterators, stores, value>>

Clear ==
    /\ Call(MaxPublisherCalls)
    /\ Publisher_clear(followers)
    /\ UNCHANGED <<publishers, published, ghost, heard, map, iterators, stores, value>>

(***************************************************************************)
(* Network                                                                 *)
(***************************************************************************)

\* TypedMap over #publishers: has, get (0 stands for undefined), set, clear.
TypedMap_has(m, key) == m[key] # 0

TypedMap_get(m, key) == m[key]

TypedMap_set(m, key, val) == [m EXCEPT ![key] = val]

TypedMap_clearNothing(m) == m

TypedMap_clear(m) == [key \in DOMAIN m |-> 0]

\* subscribe(key, cb): on the key's Publisher, constructed and stored first
\* when the key has none.
Network_subscribeFresh(key, cb) ==
    /\ Call(MaxNetworkCalls)
    /\ LET publisher == Len(subscribers) + 1
       IN  /\ Publisher_subscribe(publisher, cb,
                    Append(subscribers, <<>>), Append(ghost, ChannelGhost(key)))
           /\ publishers' = TypedMap_set(publishers, key, publisher)
    /\ UNCHANGED <<published, heard, map, iterators, stores, value>>

Network_subscribe(key, cb) ==
    /\ Call(MaxNetworkCalls)
    /\ IF ~TypedMap_has(publishers, key)
       THEN LET publisher == Len(subscribers) + 1
            IN  /\ Publisher_subscribe(publisher, cb,
                        Append(subscribers, <<>>), Append(ghost, ChannelGhost(key)))
                /\ publishers' = TypedMap_set(publishers, key, publisher)
       ELSE /\ Publisher_subscribe(TypedMap_get(publishers, key), cb,
                    subscribers, ghost)
            /\ UNCHANGED publishers
    /\ UNCHANGED <<published, heard, map, iterators, stores, value>>

\* follow(cb): this.#followers.subscribe(cb).
Network_follow(cb) ==
    /\ Call(MaxNetworkCalls)
    /\ Publisher_subscribe(followers, cb, subscribers, ghost)
    /\ UNCHANGED <<publishers, published, heard, map, iterators, stores, value>>

\* A token of subscribe or follow is invoked.
Network_unsubscribe(t) ==
    /\ Call(MaxNetworkCalls)
    /\ Publisher_unsubscribe(t)

\* The Publisher.publish calls of publish(event, ...args), in order:
\*   const publisher = this.#publishers.get(event);
\*   publisher?.publish(...args);
\*   this.#followers.publish(event, ...args);
PlanFollowersFirst(event, args) ==
    LET publisher == TypedMap_get(publishers, event)
        toFollowers == [pub |-> followers, role |-> "follower",
                        params |-> <<event>> \o args]
    IN  IF publisher = 0 THEN <<toFollowers>>
        ELSE <<toFollowers,
               [pub |-> publisher, role |-> "subscriber", params |-> args]>>

PlanFollowersOfChannels(event, args) ==
    LET publisher == TypedMap_get(publishers, event)
    IN  IF publisher = 0 THEN <<>>
        ELSE <<[pub |-> publisher, role |-> "subscriber", params |-> args],
               [pub |-> followers, role |-> "follower",
                params |-> <<event>> \o args]>>

PlanEveryChannel(event, args) ==
    LET toFollowers == [pub |-> followers, role |-> "follower",
                        params |-> <<event>> \o args]
        key == CHOOSE k \in Keys :
                    TypedMap_has(publishers, k)
                        /\ (k # event \/ \A k2 \in Keys \ {k} : ~TypedMap_has(publishers, k2))
    IN  IF \A k \in Keys : ~TypedMap_has(publishers, k) THEN <<toFollowers>>
        ELSE <<[pub |-> TypedMap_get(publishers, key), role |-> "subscriber",
                params |-> args], toFollowers>>

Plan(event, args) ==
    LET publisher == TypedMap_get(publishers, event)
        toFollowers == [pub |-> followers, role |-> "follower",
                        params |-> <<event>> \o args]
    IN  IF publisher = 0 THEN <<toFollowers>>
        ELSE <<[pub |-> publisher, role |-> "subscriber", params |-> args],
               toFollowers>>

\* publish(event, ...args) begins: the key's Publisher is looked up.
Network_publish(event, x) ==
    /\ Call(MaxNetworkCalls)
    /\ x = published + 1
    /\ published' = x
    /\ stack' = Append(
            [i \in 1..Len(stack) |->
                IF stack[i].kind = "netPublish"
                THEN [stack[i] EXCEPT !.nested = TRUE] ELSE stack[i]],
            NetFrame(x, event, <<x>>, Plan(event, <<x>>),
                TypedMap_has(publishers, event),
                {key \in Keys : TypedMap_has(publishers, key)},
                CbSet(subscribers[followers]), Len(stack) > 0))
    /\ UNCHANGED <<subscribers, publishers, tokens, ghost, heard, map, iterators, stores, value>>

\* publish makes its next Publisher.publish call.
NetPublishCall ==
    /\ Len(stack) > 0
    /\ Top.kind = "netPublish"
    /\ Len(Top.todo) > 0
    /\ LET next == Head(Top.todo)
       IN  Publisher_publish(next.pub, next.params,
                [stack EXCEPT ![Len(stack)].todo = Tail(@)],
                next.role, Top.net)
    /\ UNCHANGED <<made, subscribers, publishers, tokens, published, ghost, heard,
                   map, iterators, stores, value>>

\* publish has made its calls and returns.
NetPublishReturn ==
    /\ Len(stack) > 0
    /\ Top.kind = "netPublish"
    /\ Len(Top.todo) = 0
    /\ stack' = Pop(stack)
    /\ UNCHANGED <<made, subscribers, publishers, tokens, published, ghost, heard,
                   map, iterators, stores, value>>

\* clear(key): this.#publishers.get(key)?.clear().
Network_clearFollowers(key) ==
    /\ Call(MaxNetworkCalls)
    /\ Publisher_clear(followers)
    /\ UNCHANGED <<publishers, published, ghost, heard, map, iterators, stores, value>>

Network_clear(key) ==
    /\ Call(MaxNetworkCalls)
    /\ IF TypedMap_has(publishers, key)
       THEN Publisher_clear(TypedMap_get(publishers, key))
       ELSE UNCHANGED <<subscribers, stack, tokens>>
    /\ UNCHANGED <<publishers, published, ghost, heard, map, iterators, stores, value>>

\* fullClear(): this.#publishers.clear(); this.#followers.clear().
\* History: the registrations of the Publishers the map held are out of reach
\* with the map's entries, their tokens are marked cleared like the followers'.
Network_fullClear ==
    /\ Call(MaxNetworkCalls)
    /\ publishers' = TypedMap_clear(publishers)
    /\ subscribers' = [subscribers EXCEPT ![followers] = SetClear(@)]
    /\ stack' = StackAfterClear(stack, followers)
    /\ tokens' = [t \in 1..Len(tokens) |-> [tokens[t] EXCEPT !.cleared = TRUE]]
    /\ UNCHANGED <<published, ghost, heard, map, iterators, stores, value>>

NetworkNext ==
    \/ \E key \in Keys, cb \in Callbacks : Network_subscribe(key, cb)
    \/ \E cb \in Callbacks : Network_follow(cb)
    \/ \E t \in 1..Len(tokens) : Network_unsubscribe(t)
    \/ \E key \in Keys, x \in Args : Network_publish(key, x)
    \/ \E key \in Keys : Network_clear(key)
    \/ Network_fullClear
    \/ NetPublishCall
    \/ NetPublishReturn
    \/ ForEachCall
    \/ ForEachReturn
    \/ CallbackReturn
    \/ \E d \in 0..Len(stack) : CallbackThrow(d)

Init ==
    /\ subscribers = <<<<>>, <<>>>>
    /\ publishers = [k \in Keys |-> 0]
    /\ stack = <<>>
    /\ tokens = <<>>
    /\ made = 0
    /\ published = 0
    /\ ghost = <<NoGhost, NoGhost>>
    /\ heard = [cb \in Callbacks |-> 0]
    /\ stores = [k \in Keys |-> 0]
    /\ value = <<>>
    /\ map = <<>>
    /\ iterators = <<>>

PublisherNext ==
    \/ \E cb \in Callbacks : Subscribe(cb)
    \/ \E t \in 1..Len(tokens) : Unsubscribe(t)
    \/ \E x \in Args : Publish(x)
    \/ Clear
    \/ ForEachCall
    \/ ForEachReturn
    \/ CallbackReturn
    \/ \E d \in 0..Len(stack) : CallbackThrow(d)

PublisherSpec == Init /\ [][PublisherNext]_vars

(***************************************************************************)
(* Store: a #publisher and a #value.  Store s and its #publisher are one   *)
(* object of the heap: subscribers[s] is the Set of the #publisher,        *)
(* value[s] the #value.  History of a Store, kept in ghost[s] next to that *)
(* of its #publisher:                                                      *)
(*   initialValue  the argument of the constructor;                        *)
(*   lastSet       the value of the most recent set call (0: none yet).    *)
(***************************************************************************)
StoreGhost(initialValue) ==
    [revoked |-> {}, initialValue |-> initialValue, lastSet |-> 0,
     delivered |-> [cb \in Callbacks |-> undefined]]

\* constructor(initialValue?): this.#value = initialValue.  The heap of
\* values `heap` with the new Store s.
Store_constructorEmpty(heap, s, initialValue) == (s :> undefined) @@ heap

Store_constructor(heap, s, initialValue) == (s :> initialValue) @@ heap

\* get(): return this.#value.
Store_get(s) == value[s]

\* set(value): this.#value = value; this.#publisher.publish(value).  `stk` is
\* the stack of the caller, `role` and `n` say for whom the call is made.
Store_setUnassigned(s, val, stk, role, n) ==
    /\ value' = value
    /\ ghost' = [ghost EXCEPT ![s].lastSet = val]
    /\ Publisher_publish(s, <<val>>, stk, role, n)

Store_setIfChanged(s, val, stk, role, n) ==
    IF value[s] = val
    THEN /\ value' = value
         /\ ghost' = ghost
         /\ stack' = stk
    ELSE /\ value' = [value EXCEPT ![s] = val]
         /\ ghost' = [ghost EXCEPT ![s].lastSet = val]
         /\ Publisher_publish(s, <<val>>, stk, role, n)

Store_set(s, val, stk, role, n) ==
    /\ value' = [value EXCEPT ![s] = val]
    /\ ghost' = [ghost EXCEPT ![s].lastSet = val]
    /\ Publisher_publish(s, <<val>>, stk, role, n)

\* subscribe(cb): return this.#publisher.subscribe(cb).
Store_subscribeElsewhere(s, cb, heap, gh) ==
    Publisher_subscribe(Client_followers, cb, heap, gh)

Store_subscribe(s, cb, heap, gh) == Publisher_subscribe(s, cb, heap, gh)

(***************************************************************************)
(* The Store specification: one Store, constructed without an argument or  *)
(* with one, called by top-level code and by the bodies of its callbacks.  *)
(***************************************************************************)
store == 1

InitialValues == {undefined, 100}

StoreInit ==
    \E initialValue \in InitialValues :
        /\ subscribers = <<<<>>, <<>>>>
        /\ publishers = [k \in Keys |-> 0]
        /\ stack = <<>>
        /\ tokens = <<>>
        /\ made = 0
        /\ published = 0
        /\ ghost = <<StoreGhost(initialValue), NoGhost>>
        /\ heard = [cb \in Callbacks |-> 0]
        /\ stores = [k \in Keys |-> 0]
        /\ value = Store_constructor(<<>>, store, initialValue)
        /\ map = <<>>
        /\ iterators = <<>>

StoreSubscribe(cb) ==
    /\ Call(MaxStoreCalls)
    /\ Store_subscribe(store, cb, subscribers, ghost)
    /\ UNCHANGED <<publishers, published, heard, map, iterators, stores, value>>

StoreUnsubscribe(t) ==
    /\ Call(MaxStoreCalls)
    /\ Publisher_unsubscribe(t)

StoreSet(x) ==
    /\ Call(MaxStoreCalls)
    /\ x = published + 1
    /\ published' = x
    /\ Store_set(store, x, stack, "direct", 0)
    /\ UNCHANGED <<subscribers, publishers, tokens, heard, map, iterators, stores>>

StoreNext ==
    \/ \E cb \in Callbacks : StoreSubscribe(cb)
    \/ \E t \in 1..Len(tokens) : StoreUnsubscribe(t)
    \/ \E x \in Args : StoreSet(x)
    \/ ForEachCall
    \/ ForEachReturn
    \/ CallbackReturn
    \/ \E d \in 0..Len(stack) : CallbackThrow(d)

StoreSpec == StoreInit /\ [][StoreNext]_vars

\* The Store with callbacks that all return: no callback throws.
StoreNoThrowNext ==
    \/ \E cb \in Callbacks : StoreSubscribe(cb)
    \/ \E t \in 1..Len(tokens) : StoreUnsubscribe(t)
    \/ \E x \in Args : StoreSet(x)
    \/ ForEachCall
    \/ ForEachReturn
    \/ CallbackReturn

StoreNoThrowSpec == StoreInit /\ [][StoreNoThrowNext]_vars

(***************************************************************************)
(* Client: a TypedMap #stores of key -> Store and a Publisher #followers.  *)
(* A clientSet frame is one Client.set(key, data) in progress; it has the  *)
(* fields of a netPublish frame (event: the key, args: the data,           *)
(* hadChannel: #stores held the key when the call began, keys: the keys it *)
(* held).  For a Store of a Client, lastSet of its history is the value of *)
(* the most recent Client.set call on its key.                             *)
(***************************************************************************)
ClientSetFrame(n, key, data, todo, hadStore, keys, audience, nested) ==
    [NetFrame(n, key, <<data>>, todo, hadStore, keys, audience, nested)
        EXCEPT !.kind = "clientSet"]

\* get(key): return this.#stores.get(key)?.get().
Client_getOrEmptyArray(key) ==
    LET emptyArray == -1
        s == TypedMap_get(stores, key)
    IN  IF s = 0 THEN emptyArray
        ELSE IF Store_get(s) = undefined THEN emptyArray ELSE Store_get(s)

Client_get(key) ==
    LET s == TypedMap_get(stores, key)
    IN  IF s = 0 THEN undefined ELSE Store_get(s)

\* set(key, data) begins: store.set(data) on the key's Store, or a Store
\* constructed with data and stored under the key; the call has then still
\* this.#followers.publish(key, data) to make.
Client_setFollowersFirst(key, x) ==
    /\ Call(MaxClientCalls)
    /\ x = published + 1
    /\ published' = x
    /\ TypedMap_has(stores, key)
    /\ LET s == TypedMap_get(stores, key)
           toSubscribers == [pub |-> s, role |-> "subscriber", params |-> <<x>>]
       IN  /\ value' = [value EXCEPT ![s] = x]
           /\ ghost' = [ghost EXCEPT ![s].lastSet = x]
           /\ Publisher_publish(Client_followers, <<key, x>>,
                Append(stack,
                    ClientSetFrame(x, key, x, <<toSubscribers>>, TRUE,
                        {k \in Keys : TypedMap_has(stores, k)},
                        CbSet(subscribers[Client_followers]), Len(stack) > 0)),
                "follower", x)
    /\ UNCHANGED <<subscribers, stores, publishers, tokens, heard, map, iterators>>

Client_setOtherCell(key, x) ==
    /\ Call(MaxClientCalls)
    /\ x = published + 1
    /\ published' = x
    /\ LET toFollowers == [pub |-> Client_followers, role |-> "follower",
                           params |-> <<key, x>>]
           stk == Append(
                [i \in 1..Len(stack) |->
                    IF stack[i].kind = "clientSet"
                    THEN [stack[i] EXCEPT !.nested = TRUE] ELSE stack[i]],
                ClientSetFrame(x, key, x, <<toFollowers>>,
                    TypedMap_has(stores, key),
                    {k \in Keys : TypedMap_has(stores, k)},
                    CbSet(subscribers[Client_followers]), Len(stack) > 0))
       IN  IF TypedMap_has(stores, key)
           THEN /\ Store_set(
                    TypedMap_get(stores,
                        IF \E k2 \in Keys \ {key} : TypedMap_has(stores, k2)
                        THEN CHOOSE k2 \in Keys \ {key} : TypedMap_has(stores, k2)
                        ELSE key),
                    x, stk, "subscriber", x)
                /\ UNCHANGED <<subscribers, stores>>
           ELSE LET s == Len(subscribers) + 1
                IN  /\ value' = Store_constructor(value, s, x)
                    /\ subscribers' = Append(subscribers, <<>>)
                    /\ ghost' = Append(ghost, [StoreGhost(x) EXCEPT !.lastSet = x])
                    /\ stores' = TypedMap_set(stores, key, s)
                    /\ stack' = stk
    /\ UNCHANGED <<publishers, tokens, heard, map, iterators>>

Client_set(key, x) ==
    /\ Call(MaxClientCalls)
    /\ x = published + 1
    /\ published' = x
    /\ LET toFollowers == [pub |-> Client_followers, role |-> "follower",
                           params |-> <<key, x>>]
           stk == Append(
                [i \in 1..Len(stack) |->
                    IF stack[i].kind = "clientSet"
                    THEN [stack[i] EXCEPT !.nested = TRUE] ELSE stack[i]],
                ClientSetFrame(x, key, x, <<toFollowers>>,
                    TypedMap_has(stores, key),
                    {k \in Keys : TypedMap_has(stores, k)},
                    CbSet(subscribers[Client_followers]), Len(stack) > 0))
       IN  IF TypedMap_has(stores, key)
           THEN /\ Store_set(TypedMap_get(stores, key), x, stk, "subscriber", x)
                /\ UNCHANGED <<subscribers, stores>>
           ELSE LET s == Len(subscribers) + 1
                IN  /\ value' = Store_constructor(value, s, x)
                    /\ subscribers' = Append(subscribers, <<>>)
                    /\ ghost' = Append(ghost, [StoreGhost(x) EXCEPT !.lastSet = x])
                    /\ stores' = TypedMap_set(stores, key, s)
                    /\ stack' = stk
    /\ UNCHANGED <<publishers, tokens, heard, map, iterators>>

\* set makes its last call: this.#followers.publish(key, data).
ClientSetCallNobody ==
    /\ Len(stack) > 0
    /\ Top.kind = "clientSet"
    /\ Len(Top.todo) > 0
    /\ stack' = [stack EXCEPT ![Len(stack)].todo = Tail(@)]
    /\ UNCHANGED <<made, subscribers, publishers, tokens, published, ghost, heard,
                   map, iterators, stores, value>>

ClientSetCall ==
    /\ Len(stack) > 0
    /\ Top.kind = "clientSet"
    /\ Len(Top.todo) > 0
    /\ LET next == Head(Top.todo)
       IN  Publisher_publish(next.pub, next.params,
                [stack EXCEPT ![Len(stack)].todo = Tail(@)],
                next.role, Top.net)
    /\ UNCHANGED <<made, subscribers, publishers, tokens, published, ghost, heard,
                   map, iterators, stores, value>>

\* set has made its calls and returns.
ClientSetReturn ==
    /\ Len(stack) > 0
    /\ Top.kind = "clientSet"
    /\ Len(Top.todo) = 0
    /\ stack' = Pop(stack)
    /\ UNCHANGED <<made, subscribers, publishers, tokens, published, ghost, heard,
                   map, iterators, stores, value>>

\* subscribe(key, cb): on the key's Store, constructed empty and stored first
\* when the key has none.
Client_subscribeFresh(key, cb) ==
    /\ Call(MaxClientCalls)
    /\ LET s == Len(subscribers) + 1
       IN  /\ Store_subscribe(s, cb, Append(subscribers, <<>>),
                    Append(ghost, StoreGhost(undefined)))
           /\ value' = Store_constructor(value, s, undefined)
           /\ stores' = TypedMap_set(stores, key, s)
    /\ UNCHANGED <<publishers, published, heard, map, iterators>>

Client_subscribe(key, cb) ==
    /\ Call(MaxClientCalls)
    /\ IF TypedMap_has(stores, key)
       THEN /\ Store_subscribe(TypedMap_get(stores, key), cb, subscribers, ghost)
            /\ UNCHANGED <<stores, value>>
       ELSE LET s == Len(subscribers) + 1
            IN  /\ Store_subscribe(s, cb, Append(subscribers, <<>>),
                        Append(ghost, StoreGhost(undefined)))
                /\ value' = Store_constructor(value, s, undefined)
                /\ stores' = TypedMap_set(stores, key, s)
    /\ UNCHANGED <<publishers, published, heard, map, iterators>>

\* follow(cb): return this.#followers.subscribe(cb).
Client_follow(cb) ==
    /\ Call(MaxClientCalls)
    /\ Publisher_subscribe(Client_followers, cb, subscribers, ghost)
    /\ UNCHANGED <<publishers, published, heard, map, iterators, stores, value>>

\* A token of subscribe or follow is invoked.
Client_unsubscribe(t) ==
    /\ Call(MaxClientCalls)
    /\ Publisher_unsubscribe(t)

ClientNext ==
    \/ \E key \in Keys, cb \in Callbacks : Client_subscribe(key, cb)
    \/ \E cb \in Callbacks : Client_follow(cb)
    \/ \E t \in 1..Len(tokens) : Client_unsubscribe(t)
    \/ \E key \in Keys, x \in Args : Client_set(key, x)
    \/ ClientSetCall
    \/ ClientSetReturn
    \/ ForEachCall
    \/ ForEachReturn
    \/ CallbackReturn
    \/ \E d \in 0..Len(stack) : CallbackThrow(d)

ClientSpec == Init /\ [][ClientNext]_vars

\* set(key, data) on a key that has a Store, with the value that Store
\* retains: store.set(data), then this.#followers.publish(key, data).  The
\* call is numbered like every set; its data is not its number.
Client_setRetained(key) ==
    /\ Call(MaxClientCalls)
    /\ TypedMap_has(stores, key)
    /\ published' = published + 1
    /\ LET n == published + 1
           data == Client_get(key)
           toFollowers == [pub |-> Client_followers, role |-> "follower",
                           params |-> <<key, data>>]
           stk == Append(
                [i \in 1..Len(stack) |->
                    IF stack[i].kind = "clientSet"
                    THEN [stack[i] EXCEPT !.nested = TRUE] ELSE stack[i]],
                ClientSetFrame(n, key, data, <<toFollowers>>, TRUE,
                    {k \in Keys : TypedMap_has(stores, k)},
                    CbSet(subscribers[Client_followers]), Len(stack) > 0))
       IN  Store_set(TypedMap_get(stores, key), data, stk, "subscriber", n)
    /\ UNCHANGED <<subscribers, stores, publishers, tokens, heard, map, iterators>>

\* The Client whose callers also set a key to the value it already has.
ClientEqualNext ==
    \/ ClientNext
    \/ \E key \in Keys : Client_setRetained(key)

ClientEqualSpec == Init /\ [][ClientEqualNext]_vars

(***************************************************************************)
(* The registries together: a program that holds a Network and a Client,   *)
(* whose callbacks may call both.                                          *)
(***************************************************************************)
Within == made < MaxRegistryCalls

RegistryNext ==
    \/ Within /\ \E key \in Keys, cb \in Callbacks : Network_subscribe(key, cb)
    \/ Within /\ \E cb \in Callbacks : Network_follow(cb)
    \/ Within /\ \E t \in 1..Len(tokens) : Network_unsubscribe(t)
    \/ Within /\ \E key \in Keys, x \in Args : Network_publish(key, x)
    \/ Within /\ \E key \in Keys : Network_clear(key)
    \/ Within /\ Network_fullClear
    \/ Within /\ \E key \in Keys, cb \in Callbacks : Client_subscribe(key, cb)
    \/ Within /\ \E cb \in Callbacks : Client_follow(cb)
    \/ Within /\ \E t \in 1..Len(tokens) : Client_unsubscribe(t)
    \/ Within /\ \E key \in Keys, x \in Args : Client_set(key, x)
    \/ NetPublishCall
    \/ NetPublishReturn
    \/ ClientSetCall
    \/ ClientSetReturn
    \/ ForEachCall
    \/ ForEachReturn
    \/ CallbackReturn
    \/ \E d \in 0..Len(stack) : CallbackThrow(d)

RegistrySpec == Init /\ [][RegistryNext]_vars

NetworkSpec == Init /\ [][NetworkNext]_vars

\* The Network with callbacks that all return: no callback throws.
NetworkNoThrowNext ==
    \/ \E key \in Keys, cb \in Callbacks : Network_subscribe(key, cb)
    \/ \E cb \in Callbacks : Network_follow(cb)
    \/ \E t \in 1..Len(tokens) : Network_unsubscribe(t)
    \/ \E key \in Keys, x \in Args : Network_publish(key, x)
    \/ \E key \in Keys : Network_clear(key)
    \/ Network_fullClear
    \/ NetPublishCall
    \/ NetPublishReturn
    \/ ForEachCall
    \/ ForEachReturn
    \/ CallbackReturn

NetworkNoThrowSpec == Init /\ [][NetworkNoThrowNext]_vars

(***************************************************************************)
(* TypedMap used on its own.  #map is a JavaScript Map: a list of entries  *)
(* in insertion order.  set of a new key appends an entry, set of a key     *)
(* that is present writes its value in place, delete and clear empty        *)
(* entries where they are.  The object that keys(), values() or entries()   *)
(* returns is the Map's own iterator: it holds a position in the list of    *)
(* the Map, not a copy of it, and each next() moves on to the next entry    *)
(* of the list that is not emptied.                                         *)
(***************************************************************************)
MaxTypedMapCalls == 4

empty == "empty"

Hole == [key |-> empty, value |-> undefined]

Map_has(m, key) == \E i \in 1..Len(m) : m[i].key = key

Map_get(m, key) ==
    IF Map_has(m, key)
    THEN m[CHOOSE i \in 1..Len(m) : m[i].key = key].value
    ELSE undefined

Map_setAppends(m, key, val) == Append(m, [key |-> key, value |-> val])

Map_set(m, key, val) ==
    IF Map_has(m, key)
    THEN [i \in 1..Len(m) |-> IF m[i].key = key THEN [m[i] EXCEPT !.value = val]
                                               ELSE m[i]]
    ELSE Append(m, [key |-> key, value |-> val])

Map_delete(m, key) ==
    [i \in 1..Len(m) |-> IF m[i].key = key THEN Hole ELSE m[i]]

Map_clear(m) == [i \in 1..Len(m) |-> Hole]

\* The entries present in the Map, in insertion order.
Map_entries(m) == SelectSeq(m, LAMBDA e : e.key # empty)

\* What an iterator of the given kind yields for entry e.
Yield(kind, e) ==
    IF kind = "keys" THEN [key |-> e.key]
    ELSE IF kind = "values" THEN [value |-> e.value]
    ELSE [key |-> e.key, value |-> e.value]

IteratorKinds == {"keys", "values", "entries"}

\* constructor(initialValues?): new Map(Object.entries(initialValues)).
TypedMap_constructor(initialValues) == initialValues

TypedMapInit ==
    /\ Init!1 /\ Init!2 /\ Init!3 /\ Init!4 /\ Init!5 /\ Init!6 /\ Init!7
    /\ Init!8 /\ Init!9 /\ Init!10
    /\ \E initialValues \in {<<>>, <<[key |-> "a", value |-> 100]>>} :
        map = TypedMap_constructor(initialValues)
    /\ iterators = <<>>

TypedMapCall ==
    /\ made < MaxTypedMapCalls
    /\ made' = made + 1
    /\ UNCHANGED <<subscribers, publishers, stack, tokens, published, ghost, heard,
                   stores, value>>

\* The iterators and walks in progress have seen the Map change.
Disturbed(its) ==
    [i \in 1..Len(its) |->
        IF its[i].done THEN its[i] ELSE [its[i] EXCEPT !.changed = TRUE]]

\* set(key, value): this.#map.set(key, value).
TypedMapSet(key, val) ==
    /\ TypedMapCall
    /\ val = made + 1
    /\ map' = Map_set(map, key, val)
    /\ iterators' = IF map' = map THEN iterators ELSE Disturbed(iterators)

\* delete(key): this.#map.delete(key).
TypedMapDelete(key) ==
    /\ TypedMapCall
    /\ map' = Map_delete(map, key)
    /\ iterators' = IF map' = map THEN iterators ELSE Disturbed(iterators)

\* clear(): this.#map.clear().
TypedMapClear ==
    /\ TypedMapCall
    /\ map' = Map_clear(map)
    /\ iterators' = IF map' = map THEN iterators ELSE Disturbed(iterators)

\* An iterator or a forEach walk of the given kind, at the start of the list.
\* History: what it has yielded, what it would yield from the entries
\* present now, and whether the Map has changed since.
Iterator(kind) ==
    [kind |-> kind, index |-> 0, done |-> FALSE, yielded |-> <<>>, changed |-> FALSE,
     atCreation |-> [i \in 1..Len(Map_entries(map)) |->
                        Yield(kind, Map_entries(map)[i])]]

\* keys(), values(), entries(): return this.#map.keys() (values(), entries()).
TypedMapIterator(kind) ==
    /\ TypedMapCall
    /\ iterators' = Append(iterators, Iterator(kind))
    /\ UNCHANGED map

\* The position of the first entry of the list after position index that is
\* not emptied; 0 when there is none.
NextEntryAny(m, index) == IF index < Len(m) THEN index + 1 ELSE 0

NextEntry(m, index) ==
    LET rest == {i \in (index + 1)..Len(m) : m[i].key # empty}
    IN  IF rest = {} THEN 0 ELSE CHOOSE i \in rest : \A j \in rest : i <= j

\* The iterator or walk it moves on: to the next entry of the list that is
\* not emptied, which it yields, or to the end of the list, after which it
\* stays exhausted.
Advance(it) ==
    LET i == NextEntry(map, iterators[it].index)
    IN  IF i = 0
        THEN [iterators EXCEPT ![it].done = TRUE, ![it].index = Len(map)]
        ELSE [iterators EXCEPT
                ![it].index = i,
                ![it].yielded = Append(@, Yield(iterators[it].kind, map[i]))]

\* next() of iterator it, not yet exhausted.
IteratorNext(it) ==
    /\ TypedMapCall
    /\ iterators[it].kind \in IteratorKinds
    /\ ~iterators[it].done
    /\ iterators' = Advance(it)
    /\ UNCHANGED map

\* forEach(callbackFn): this.#map.forEach(function (value, key) {
\* callbackFn(value, key, this) }) begins.
TypedMapForEach ==
    /\ TypedMapCall
    /\ iterators' = Append(iterators, Iterator("forEach"))
    /\ UNCHANGED map

\* The innermost forEach in progress invokes callbackFn for the next entry, or
\* returns.  The calls made in between are those of callbackFn.
ForEachVisit(it) ==
    /\ iterators[it].kind = "forEach"
    /\ ~iterators[it].done
    /\ \A j \in (it + 1)..Len(iterators) :
            iterators[j].kind = "forEach" => iterators[j].done
    /\ iterators' = Advance(it)
    /\ UNCHANGED <<subscribers, publishers, stack, tokens, made, published, ghost, heard,
                   stores, value, map>>

TypedMapNext ==
    \/ \E key \in Keys, val \in Args : TypedMapSet(key, val)
    \/ \E key \in Keys : TypedMapDelete(key)
    \/ TypedMapClear
    \/ \E kind \in IteratorKinds : TypedMapIterator(kind)
    \/ \E it \in 1..Len(iterators) : IteratorNext(it)
    \/ TypedMapForEach
    \/ \E it \in 1..Len(iterators) : ForEachVisit(it)

TypedMapSpec == TypedMapInit /\ [][TypedMapNext]_vars

(***************************************************************************)
(* Properties                                                              *)
(***************************************************************************)

\* The publish calls in progress, and the Network.publish calls in progress.
ForEachFrames == {i \in 1..Len(stack) : stack[i].kind = "forEach"}

NetFrames == {i \in 1..Len(stack) : stack[i].kind = "netPublish"}

\* The Network.publish call on top has made its calls and is about to return.
NetReturning ==
    IF Len(stack) = 0 THEN FALSE
    ELSE Top.kind = "netPublish" /\ Len(Top.todo) = 0

\* The invocations of cb as a follower made for the Network.publish call fr.
FollowerEvents(fr, cb) ==
    {j \in 1..Len(fr.events) :
        fr.events[j].role = "follower" /\ fr.events[j].cb = cb}

\* C1: once a token of callback f has been invoked, and as long as f is not
\* subscribed again, no publish that begins afterwards invokes f: no publish
\* call invokes a callback that was revoked when the call began and was not
\* subscribed since.
C1_UnsubscribedNotInvoked ==
    \A i \in ForEachFrames :
        \A j \in 1..Len(stack[i].invoked) :
            stack[i].invoked[j].cb \notin stack[i].dead

\* A publish that began after f's token was invoked has called the other
\* subscriber and is about to return.
C1_Witness ==
    /\ Returning
    /\ Top.dead # {}
    /\ Len(Top.invoked) > 0

\* C2: a publish during which nobody called subscribe, a token or clear on
\* the Publisher has, when it returns, invoked exactly the callbacks registered
\* when it began, each once, in the order of the subscribe calls that
\* registered them, each with the arguments of the publish; and a callback
\* only ever runs directly under the publish that invokes it (nothing is
\* deferred).
C2_PublishInvokesAllInOrder ==
    /\ Returning /\ ~Top.changed =>
        /\ Cbs(Top.invoked) = Top.snapshot
        /\ \A cb \in Callbacks :
                Count(Top.invoked, cb) = (IF cb \in Range(Top.snapshot) THEN 1 ELSE 0)
        /\ \A j \in 1..Len(Top.invoked) : Top.invoked[j].params = Top.params
        /\ \A j, k \in 1..Len(Top.invoked) :
                j < k => Top.invoked[j].tok < Top.invoked[k].tok
    /\ \A i \in 1..Len(stack) :
        stack[i].kind = "cb" =>
            /\ i > 1
            /\ stack[i - 1].kind = "forEach"
            /\ stack[i - 1].pub = stack[i].pub
            /\ stack[i - 1].invoked[Len(stack[i - 1].invoked)].cb = stack[i].cb

\* A publish to two subscribers, undisturbed, is about to return.
C2_Witness ==
    /\ Returning
    /\ ~Top.changed
    /\ Len(Top.invoked) = 2

\* C3 (as claimed): a publish invokes only callbacks that were registered when
\* it began; a callback subscribed while it runs is left to later publishes.
C3_AddedNotInvoked ==
    \A i \in ForEachFrames : CbSet(stack[i].invoked) \subseteq Range(stack[i].snapshot)

\* C4 (as claimed): a publish during which tokens were invoked (and clear was
\* not) has, when it returns, invoked every callback that was registered when
\* it began, also those whose token a subscriber invoked before their turn.
C4_RemovedStillInvoked ==
    Returning /\ ~Top.cleared => Range(Top.snapshot) \subseteq CbSet(Top.invoked)

\* C5 (as claimed): invoking a token that was invoked before leaves the
\* registrations of its Publisher as they are.
C5_TokenIdempotent ==
    [][\A t \in 1..Len(tokens) :
        tokens[t].used /\ Unsubscribe(t) => subscribers' = subscribers]_vars

\* C6 (as claimed): every subscribe call makes a registration of its own, which
\* only its own token (or clear) removes: an undisturbed publish has, when it
\* returns, invoked each callback once per token handed out for it and neither
\* invoked nor cleared when the publish began.
C6_DuplicatesSeparate ==
    Returning /\ ~Top.changed =>
        \A cb \in Callbacks : Count(Top.invoked, cb) = Top.regs[cb]

\* C7: no publish that begins after a clear invokes a callback on the strength
\* of a registration made before the clear: the registration an invoked
\* callback stands for was not cleared when the publish began.
C7_ClearedNotInvoked ==
    \A i \in ForEachFrames :
        \A j \in 1..Len(stack[i].invoked) :
            stack[i].invoked[j].tok \notin stack[i].wiped

\* A publish that began after a clear has called a callback subscribed after
\* the clear and is about to return.
C7_Witness ==
    /\ Returning
    /\ Top.wiped # {}
    /\ Len(Top.invoked) > 0

\* C8: among the invocations made for one Network.publish call, none of a
\* subscriber of the key comes after one of a follower.
C8_SubscribersBeforeFollowers ==
    \A i \in NetFrames :
        \A j, k \in 1..Len(stack[i].events) :
            j < k => ~(stack[i].events[j].role = "follower"
                        /\ stack[i].events[k].role = "subscriber")

\* A Network.publish that invoked a subscriber and a follower is about to return.
C8_Witness ==
    /\ NetReturning
    /\ \E j, k \in 1..Len(Top.events) :
        Top.events[j].role = "subscriber" /\ Top.events[k].role = "follower"

\* C9: a Network.publish on a key that has no Publisher: the lookup leaves
\* #publishers as it is (no Publisher is made for the key), the call goes on to
\* publish to the followers, no invocation of a subscriber is made for it, and
\* when it returns every follower that was registered when it began and was
\* not taken out while it ran has been invoked once, with the key followed by
\* the arguments.
C9_PublishWithoutChannel ==
    \A i \in NetFrames :
        LET fr == stack[i]
        IN  ~fr.hadChannel =>
            /\ \A j \in 1..Len(fr.events) : fr.events[j].role = "follower"
            /\ i = Len(stack) /\ Len(fr.todo) > 0 =>
                /\ {key \in Keys : TypedMap_has(publishers, key)} = fr.keys
                /\ Len(fr.todo) = 1
                /\ fr.todo[1].pub = followers
            /\ i = Len(stack) /\ Len(fr.todo) = 0 =>
                \A cb \in fr.audience \ fr.unfollowed :
                    /\ Cardinality(FollowerEvents(fr, cb)) = 1
                    /\ \A j \in FollowerEvents(fr, cb) :
                            fr.events[j].params = <<fr.event>> \o fr.args

\* A Network.publish on a key without a Publisher has invoked a follower and
\* is about to return.
C9_Witness ==
    /\ NetReturning
    /\ ~Top.hadChannel
    /\ Top.audience \ Top.unfollowed # {}

\* C10: when a Network.publish call returns, every follower that was
\* registered when it began and was not taken out while it ran has been
\* invoked exactly once for it, with the key followed by the arguments of the
\* call, whether the key had a Publisher or not; and, the call being neither
\* made by a callback nor interrupted by a publish of a callback, the follower
\* had last been invoked for an earlier call.
C10_FollowersOncePerPublishInOrder ==
    NetReturning =>
        \A cb \in Top.audience \ Top.unfollowed :
            /\ Cardinality(FollowerEvents(Top, cb)) = 1
            /\ \A j \in FollowerEvents(Top, cb) :
                /\ Top.events[j].params = <<Top.event>> \o Top.args
                /\ ~Top.nested => Top.events[j].prev < Top.net

\* The second of two Network.publish calls made one after the other, on a key
\* with a Publisher, has invoked a follower that the first had invoked.
C10_Witness ==
    /\ NetReturning
    /\ ~Top.nested
    /\ Top.hadChannel
    /\ \E cb \in Top.audience \ Top.unfollowed :
        \E j \in FollowerEvents(Top, cb) :
            Top.events[j].prev > 0 /\ Top.events[j].prev < Top.net

\* C11: Network.clear(k1) empties the Publisher of k1, when k1 has one, and
\* changes nothing else: #publishers keeps its entries, the Set of every other
\* Publisher (every other key's, the followers', those of tokens handed out
\* before a fullClear) is as before, no new token appears, and the publish
\* calls in progress on other Publishers go on as before.
C11_ClearOnlyThatKey ==
    [][\A k1 \in Keys : Network_clear(k1) =>
        /\ publishers' = publishers
        /\ Len(subscribers') = Len(subscribers)
        /\ Len(tokens') = Len(tokens)
        /\ \A p \in 1..Len(subscribers) :
            IF p = TypedMap_get(publishers, k1)
            THEN subscribers'[p] = <<>>
            ELSE subscribers'[p] = subscribers[p]
        /\ subscribers'[followers] = subscribers[followers]
        /\ \A k2 \in Keys \ {k1} :
            TypedMap_has(publishers, k2) =>
                subscribers'[TypedMap_get(publishers', k2)]
                    = subscribers[TypedMap_get(publishers, k2)]
        /\ \A i \in 1..Len(stack) :
            ~(stack[i].kind = "forEach" /\ stack[i].pub = TypedMap_get(publishers, k1))
                => stack'[i] = stack[i]]_vars

\* After a clear of one key, a Network.publish on another key has invoked a
\* subscriber of that key and a follower, both registered before the clear, and
\* is about to return.
C11_Witness ==
    /\ NetReturning
    /\ \E t1, t2, t3 \in 1..Len(tokens) :
        /\ tokens[t1].cleared /\ ~tokens[t2].cleared /\ ~tokens[t3].cleared
        /\ t2 < t1 /\ t3 < t1
        /\ tokens[t1].pub \notin {followers, TypedMap_get(publishers, Top.event)}
        /\ tokens[t2].pub = TypedMap_get(publishers, Top.event)
        /\ tokens[t3].pub = followers
        /\ \E j, k \in 1..Len(Top.events) :
            /\ Top.events[j].role = "subscriber" /\ Top.events[j].cb = tokens[t2].cb
            /\ Top.events[k].role = "follower" /\ Top.events[k].cb = tokens[t3].cb

\* C12: no Publisher.publish made for a Network.publish that begins after a
\* fullClear invokes a callback on the strength of a registration (of a key or
\* of a follower) made before the fullClear.
C12_FullClearedNotInvoked ==
    \A i \in ForEachFrames :
        stack[i].net # 0 =>
            \A j \in 1..Len(stack[i].invoked) :
                stack[i].invoked[j].tok \notin stack[i].wiped

\* After a fullClear, a Network.publish on a key that had a subscriber before
\* it has invoked a callback registered after it and is about to return.
C12_Witness ==
    /\ NetReturning
    /\ Top.hadChannel
    /\ \E t, u \in 1..Len(tokens) :
        /\ tokens[t].cleared
        /\ tokens[t].pub # followers
        /\ \A key \in Keys : TypedMap_get(publishers, key) # tokens[t].pub
        /\ u > t
        /\ ~tokens[u].cleared
        /\ tokens[u].pub = TypedMap_get(publishers, Top.event)
        /\ \E j \in 1..Len(Top.events) :
            Top.events[j].role = "subscriber" /\ Top.events[j].cb = tokens[u].cb

ClientSetStep == \E key \in Keys, x \in Args : Client_set(key, x)

ClientSetFrames == {i \in 1..Len(stack) : stack[i].kind = "clientSet"}

\* The Client.set call on top has made its calls and is about to return.
ClientSetReturning ==
    IF Len(stack) = 0 THEN FALSE
    ELSE Top.kind = "clientSet" /\ Len(Top.todo) = 0

\* C15: when a Client.set(key, value) call returns, every follower that was
\* registered when it began and was not taken out while it ran has been
\* invoked exactly once for it, with the key and the value, whether the call
\* constructed the key's Store or set an existing one.
C15_SetInvokesFollowers ==
    ClientSetReturning =>
        \A cb \in Top.audience \ Top.unfollowed :
            /\ Cardinality(FollowerEvents(Top, cb)) = 1
            /\ \A j \in FollowerEvents(Top, cb) :
                Top.events[j].params = <<Top.event, Top.net>>

\* A set that updated a Store, which an earlier set had constructed, has
\* invoked a follower that the earlier set had invoked, and is about to return.
C15_Witness ==
    /\ ClientSetReturning
    /\ Top.hadChannel
    /\ ghost[TypedMap_get(stores, Top.event)].initialValue # undefined
    /\ \E cb \in Top.audience \ Top.unfollowed :
        \E j \in FollowerEvents(Top, cb) :
            Top.events[j].prev = ghost[TypedMap_get(stores, Top.event)].initialValue

\* C16: among the invocations made for one Client.set call, none of a
\* subscriber of the key comes after one of a follower.
C16_ClientSubscribersBeforeFollowers ==
    \A i \in ClientSetFrames :
        \A j, k \in 1..Len(stack[i].events) :
            j < k => ~(stack[i].events[j].role = "follower"
                        /\ stack[i].events[k].role = "subscriber")

\* A Client.set that invoked a subscriber and then a follower is about to
\* return.
C16_Witness ==
    /\ ClientSetReturning
    /\ \E j, k \in 1..Len(Top.events) :
        /\ j < k
        /\ Top.events[j].role = "subscriber"
        /\ Top.events[k].role = "follower"

\* A step leaves the invocations made so far, and the calls in progress, as
\* they are: it invokes nobody.
InvokesNobody ==
    /\ Len(stack') = Len(stack)
    /\ \A i \in 1..Len(stack) :
        /\ stack'[i].kind = stack[i].kind
        /\ stack[i].kind = "forEach" => stack'[i].invoked = stack[i].invoked

\* C17: Client.subscribe(key, cb) on a key without a cell stores an empty
\* Store for the key, with cb subscribed: get(key) is still the unset result,
\* and the subscribe invokes nobody.  Every Client.set(key, x) on a key that
\* has a Store publishes x to the subscribers the Store has at that moment,
\* and when that publish returns every callback that was subscribed when it
\* began and was not taken out while it ran has been invoked exactly once,
\* with x.
C17_SubscribeCreatesEmptyCell ==
    /\ [][/\ \A key \in Keys, cb \in Callbacks :
                Client_subscribe(key, cb) /\ ~TypedMap_has(stores, key) =>
                    /\ TypedMap_has(stores', key)
                    /\ Client_get(key)' = undefined
                    /\ Cbs(subscribers'[TypedMap_get(stores', key)]) = <<cb>>
                    /\ InvokesNobody
          /\ \A key \in Keys, x \in Args :
                Client_set(key, x) /\ TypedMap_has(stores, key) =>
                    LET fr == stack'[Len(stack')]
                    IN  /\ fr.kind = "forEach"
                        /\ fr.pub = TypedMap_get(stores, key)
                        /\ fr.role = "subscriber"
                        /\ fr.params = <<x>>
                        /\ fr.snapshot = Cbs(subscribers[TypedMap_get(stores, key)])
                        /\ fr.index = 0]_vars
    /\ [](Returning /\ Top.role = "subscriber" =>
            \A cb \in Range(Top.snapshot) \ Top.removed :
                /\ Count(Top.invoked, cb) = 1
                /\ \A j \in 1..Len(Top.invoked) :
                    Top.invoked[j].cb = cb => Top.invoked[j].params = <<Top.net>>)

\* A key got its cell from a subscribe and was then set twice; the publish of
\* the second set has invoked the subscriber and is about to return.
C17_Witness ==
    /\ Returning
    /\ Top.role = "subscriber"
    /\ Top.net = 2
    /\ ghost[Top.pub].initialValue = undefined
    /\ \E key \in Keys : ~TypedMap_has(stores, key)
    /\ Len(Top.invoked) > 0
    /\ Top.invoked[1].tok = 1

\* C19 (as claimed): subscribe invokes nobody, and a publish made by a set
\* invokes only callbacks that were subscribed when the set began.
C19_NoReplay ==
    /\ [][(\E key \in Keys, cb \in Callbacks : Client_subscribe(key, cb))
            => InvokesNobody]_vars
    /\ [](\A i \in ForEachFrames :
            stack[i].role = "subscriber" =>
                CbSet(stack[i].invoked) \subseteq Range(stack[i].snapshot))

\* The Publisher or Store that the registry of the keyed call fr (a
\* Network.publish or a Client.set in progress) holds for the key of the call.
Registered(fr) ==
    IF fr.kind = "netPublish" THEN TypedMap_get(publishers, fr.event)
    ELSE TypedMap_get(stores, fr.event)

\* C18: the token of Network.subscribe(key, cb) or Client.subscribe(key, cb)
\* takes cb out of the key's subscribers.  A publish or set on the key goes to
\* the subscribers the key has when it begins; if it begins before the token
\* is invoked, and cb is not taken out while it runs, it has invoked cb (once)
\* when it returns; a callback whose token was invoked, and that was not
\* subscribed to the key again, is not among the key's subscribers, and no
\* publish or set on the key that begins afterwards invokes it.
C18_TokenDeregistersFromKey ==
    /\ \A p \in 1..Len(subscribers) :
        ghost[p].revoked \cap CbSet(subscribers[p]) = {}
    /\ \A i \in ForEachFrames :
        LET fr == stack[i]
        IN  fr.role = "subscriber" =>
            /\ CbSet(fr.invoked) \cap fr.dead = {}
            /\ i = Len(stack) /\ fr.index = 0 /\ fr.invoked = <<>> /\ ~fr.changed =>
                /\ stack[i - 1].kind \in {"netPublish", "clientSet"}
                /\ fr.pub = Registered(stack[i - 1])
                /\ fr.snapshot = Cbs(subscribers[fr.pub])
            /\ i = Len(stack) /\ Returning =>
                \A cb \in Range(fr.snapshot) \ fr.removed :
                    Count(fr.invoked, cb) = 1

\* A publish or set on a key, begun after the token of one of the key's two
\* subscribers was invoked, has invoked the other one and is about to return.
C18_Witness ==
    /\ Returning
    /\ Top.role = "subscriber"
    /\ Top.dead # {}
    /\ Len(Top.invoked) = 1
    /\ ~Top.changed

\* A step in which the running callback throws.
ThrowStep == \E d \in 0..Len(stack) : CallbackThrow(d)

\* C21: when a callback throws, the error leaves every publish and set it
\* passes through: the forEach that invoked the callback, the Publisher.publish
\* around it and the Store.set, Network.publish or Client.set that made it do
\* not go on and do not return; control is next with code outside the library
\* that called the outermost of them, top-level code or the body of a callback,
\* and the frames below it are as they were.
C21_FaultReachesCaller ==
    [][ThrowStep =>
        /\ Len(stack') < Len(stack) - 1
        /\ stack' = SubSeq(stack, 1, Len(stack'))
        /\ Len(stack') > 0 => stack'[Len(stack')].kind = "cb"
        /\ stack[Len(stack') + 1].kind \in {"forEach", "netPublish", "clientSet"}]_vars

\* The body of a follower runs, invoked by the followers' publish of a
\* Network.publish or Client.set that a callback made: a throw would pass
\* through that publish and the keyed call around it.
C21_Witness ==
    /\ Len(stack) > 3
    /\ Top.kind = "cb"
    /\ Top.role = "follower"
    /\ stack[Len(stack) - 2].kind \in {"netPublish", "clientSet"}
    /\ stack[Len(stack) - 3].kind = "cb"

\* C22: a Publisher.publish that Network.publish(k1, ...) makes to subscribers
\* is made on the Publisher constructed for k1, and every callback it invokes
\* is invoked for a registration that Network.subscribe(k1, cb) made on that
\* Publisher; the Publisher of a key is no other key's and not the followers'.
\* So a callback subscribed only to another key is not invoked as a subscriber
\* of k1.
C22_KeyIsolation ==
    /\ \A k1 \in Keys :
        TypedMap_has(publishers, k1) =>
            /\ TypedMap_get(publishers, k1) # followers
            /\ ghost[TypedMap_get(publishers, k1)].key = k1
    /\ \A i \in ForEachFrames :
        stack[i].role = "subscriber" /\ stack[i - 1].kind = "netPublish" =>
            /\ stack[i].pub # followers
            /\ ghost[stack[i].pub].key = stack[i - 1].event
            /\ \A j \in 1..Len(stack[i].invoked) :
                LET e == stack[i].invoked[j]
                IN  /\ tokens[e.tok].pub = stack[i].pub
                    /\ tokens[e.tok].cb = e.cb
    /\ \A i \in NetFrames :
        \A j \in 1..Len(stack[i].events) :
            stack[i].events[j].role = "subscriber" =>
                \E t \in 1..Len(tokens) :
                    /\ tokens[t].cb = stack[i].events[j].cb
                    /\ tokens[t].pub # followers
                    /\ ghost[tokens[t].pub].key = stack[i].event

\* Both keys have a subscriber, not the same one; a Network.publish on one
\* key has invoked that key's subscriber, and no other, and is about to return.
C22_Witness ==
    /\ NetReturning
    /\ \E k2 \in Keys \ {Top.event} :
        /\ TypedMap_has(publishers, k2)
        /\ TypedMap_has(publishers, Top.event)
        /\ Len(subscribers[TypedMap_get(publishers, k2)]) = 1
        /\ Len(Top.events) = 1
        /\ Top.events[1].role = "subscriber"
        /\ Top.events[1].cb # subscribers[TypedMap_get(publishers, k2)][1].cb

\* C23: on a key without an entry, Client.get(key) is the unset result, and a
\* Network.clear(key) step returns to its caller having invoked nobody and
\* having left the entries, the subscribers and followers, the tokens, the
\* cells and the retained values as they were.
C23_UnknownKeyNoOp ==
    /\ [](\A key \in Keys :
            ~TypedMap_has(stores, key) => Client_get(key) = undefined)
    /\ [][\A key \in Keys :
            Network_clear(key) /\ ~TypedMap_has(publishers, key) =>
                /\ InvokesNobody
                /\ stack' = stack
                /\ UNCHANGED <<subscribers, publishers, tokens, stores, value,
                               heard, ghost, published>>
                /\ \A k2 \in Keys : Client_get(k2)' = Client_get(k2)]_vars

\* Four calls were made on a registry where one key has a subscriber and a
\* value, a follower is registered and the other key has no entry; three of the
\* calls built that registry, the fourth, a clear of the other key, left no
\* trace.
C23_Witness ==
    /\ made = 4
    /\ stack = <<>>
    /\ published = 1
    /\ Len(tokens) = 2
    /\ \A t \in 1..Len(tokens) : ~tokens[t].used /\ ~tokens[t].cleared
    /\ Len(subscribers[followers]) = 1
    /\ \E k1 \in Keys :
        /\ TypedMap_has(publishers, k1)
        /\ Len(subscribers[TypedMap_get(publishers, k1)]) = 1
        /\ TypedMap_has(stores, k1)
        /\ Client_get(k1) = 1
        /\ \A k2 \in Keys \ {k1} :
            ~TypedMap_has(publishers, k2) /\ ~TypedMap_has(stores, k2)

\* C24: while a subscriber of the Store is being invoked for set(v), and no
\* set has been made since that one (v is the value last passed to set), get()
\* returns v: the value was overwritten before the publish began.
C24_ValueSetBeforeNotify ==
    \A i \in 2..Len(stack) :
        /\ stack[i].kind = "cb"
        /\ stack[i - 1].kind = "forEach"
        /\ stack[i - 1].pub = store
        /\ stack[i - 1].params = <<ghost[store].lastSet>>
        => Store_get(store) = stack[i - 1].params[1]

\* A subscriber invoked for set(1) has called set(2), and a subscriber is now
\* being invoked for set(2): get() returns 2 to it.
C24_Witness ==
    /\ Len(stack) = 4
    /\ Top.kind = "cb"
    /\ stack[3].params = <<2>>
    /\ stack[1].params = <<1>>
    /\ ghost[store].lastSet = 2
    /\ Store_get(store) = 2

\* The Publishers and Stores the two maps hold.
Entries ==
    {TypedMap_get(publishers, k) : k \in {k2 \in Keys : TypedMap_has(publishers, k2)}}
        \cup {TypedMap_get(stores, k) : k \in {k2 \in Keys : TypedMap_has(stores, k2)}}

\* C25: no step replaces the Publisher a Network key has, except a fullClear,
\* which discards it, and no step replaces the Store a Client key has; an
\* entry that a step adds is a newly constructed object.  So the registrations
\* made on a key since its entry was created are all on the object that a
\* publish or set on the key walks: every callback with a registration on it
\* that was not cleared, and whose token was not invoked since it was last
\* subscribed, is among its subscribers.
C25_EntryCreatedOnceAndReused ==
    /\ [][\A k \in Keys :
            /\ TypedMap_has(publishers, k) =>
                \/ TypedMap_get(publishers', k) = TypedMap_get(publishers, k)
                \/ Network_fullClear /\ ~TypedMap_has(publishers', k)
            /\ TypedMap_has(stores, k) =>
                TypedMap_get(stores', k) = TypedMap_get(stores, k)
            /\ ~TypedMap_has(publishers, k) /\ TypedMap_has(publishers', k) =>
                /\ TypedMap_get(publishers', k) = Len(subscribers) + 1
                /\ Len(subscribers') = Len(subscribers) + 1
            /\ ~TypedMap_has(stores, k) /\ TypedMap_has(stores', k) =>
                /\ TypedMap_get(stores', k) = Len(subscribers) + 1
                /\ Len(subscribers') = Len(subscribers) + 1]_vars
    /\ [](\A t \in 1..Len(tokens) :
            /\ tokens[t].pub \in Entries
            /\ ~tokens[t].cleared
            /\ tokens[t].cb \notin ghost[tokens[t].pub].revoked
            => tokens[t].cb \in CbSet(subscribers[tokens[t].pub]))

\* A key was subscribed to, cleared and subscribed to again; a Network.publish
\* on the key has walked the same Publisher and invoked the second subscriber.
C25_Witness ==
    /\ Returning
    /\ Top.role = "subscriber"
    /\ stack[Len(stack) - 1].kind = "netPublish"
    /\ Len(Top.invoked) = 1
    /\ \E t1, t2 \in 1..Len(tokens) :
        /\ t1 < t2
        /\ tokens[t1].pub = Top.pub /\ tokens[t1].cleared
        /\ tokens[t2].pub = Top.pub /\ ~tokens[t2].cleared
        /\ Top.invoked[1].tok = t2

\* C26 (as claimed): when a callback throws, every publish the throw ends has
\* already invoked every callback registered for it: each walk it ends has
\* invoked every subscriber that was registered when it began and was not
\* taken out, and each Network.publish or Client.set it ends has no publish
\* left to make to a registered callback.
C26_AllNotifiedUnderFaults ==
    [][ThrowStep =>
        \A i \in (Len(stack') + 1)..Len(stack) :
            /\ stack[i].kind = "forEach" =>
                \A cb \in Range(stack[i].snapshot) \ stack[i].removed :
                    Count(stack[i].invoked, cb) >= 1
            /\ stack[i].kind \in {"netPublish", "clientSet"} =>
                \A j \in 1..Len(stack[i].todo) :
                    subscribers[stack[i].todo[j].pub] = <<>>]_vars

\* A step is a call of Client.subscribe, of Client.follow or of a token.
ClientRegistrationStep ==
    \/ \E key \in Keys, cb \in Callbacks : Client_subscribe(key, cb)
    \/ \E cb \in Callbacks : Client_follow(cb)
    \/ \E t \in 1..Len(tokens) : Client_unsubscribe(t)

\* C27: a call of Client.subscribe (which calls Store.subscribe), of
\* Client.follow or of an unsubscribe or unfollow token leaves what get
\* returns for every key, and the value every Store retains, as it was; a
\* step after which get returns something else for some key is a Client.set.
C27_RegistrationKeepsValues ==
    [][/\ ClientRegistrationStep =>
            /\ \A key \in Keys : Client_get(key)' = Client_get(key)
            /\ \A s \in DOMAIN value : Store_get(s)' = Store_get(s)
       /\ (\E key \in Keys : Client_get(key)' # Client_get(key)) => ClientSetStep]_vars

\* A key was set, then subscribed to, a follower was registered and the
\* subscriber's token was invoked: get still returns the value set.
C27_Witness ==
    /\ stack = <<>>
    /\ \E key \in Keys, t1, t2 \in 1..Len(tokens) :
        /\ Client_get(key) = 1
        /\ ghost[TypedMap_get(stores, key)].initialValue = 1
        /\ tokens[t1].pub = TypedMap_get(stores, key)
        /\ tokens[t1].used
        /\ tokens[t2].pub = Client_followers

\* C28 (as claimed): an iterator of keys(), values() or entries() yields the
\* entries that were present when it was created, in insertion order,
\* whatever was done to the map since: what it has yielded is a prefix of
\* them, and all of them once it is exhausted.
C28_IteratorsReflectCreation ==
    \A it \in {i \in 1..Len(iterators) : iterators[i].kind \in IteratorKinds} :
        LET yielded == iterators[it].yielded
            atCreation == iterators[it].atCreation
        IN  /\ Len(yielded) <= Len(atCreation)
            /\ yielded = SubSeq(atCreation, 1, Len(yielded))
            /\ iterators[it].done => yielded = atCreation

\* C29 (as claimed): no publish call invokes a callback more than once,
\* whatever the callbacks subscribe or unsubscribe while it runs.
C29_AtMostOncePerPublish ==
    \A i \in ForEachFrames :
        \A cb \in Callbacks : Count(stack[i].invoked, cb) <= 1

\* The callback being invoked invokes token t, a token of its own registration
\* on the Publisher whose publish is invoking it.
SelfUnsubscribe(t) ==
    /\ Len(stack) >= 2
    /\ Top.kind = "cb"
    /\ Top.cb = tokens[t].cb
    /\ Top.pub = tokens[t].pub
    /\ Top.cb \in CbSet(subscribers[Top.pub])
    /\ Unsubscribe(t)

\* The callbacks the walk fr still has to visit when the subscribers are s.
Rest(fr, s) == Cbs(SubSeq(s, fr.index + 1, Len(s)))

\* C30: when the callback being invoked by a publish invokes its own token,
\* it leaves the subscribers, what the publish has invoked stays as it is
\* (the callback once, when nothing else was subscribed or unsubscribed during
\* the publish), and what the publish still has to visit stays as it is, apart
\* from the callback itself: every other callback is still invoked, the
\* callback is not invoked again.  A callback whose token was invoked, and that
\* was not subscribed again, is not among the subscribers, so no later publish
\* invokes it.
C30_SelfUnsubscribeSafe ==
    /\ [][\A t \in 1..Len(tokens) :
            SelfUnsubscribe(t) =>
                LET p == Top.pub
                    cb == Top.cb
                    fr == stack[Len(stack) - 1]
                IN  /\ cb \notin CbSet(subscribers'[p])
                    /\ stack'[Len(stack) - 1].invoked = fr.invoked
                    /\ Count(fr.invoked, cb) >= 1
                    /\ ~fr.changed => Count(fr.invoked, cb) = 1
                    /\ Rest(stack'[Len(stack) - 1], subscribers'[p])
                        = SelectSeq(Rest(fr, subscribers[p]), LAMBDA c : c # cb)
                    /\ ~fr.changed =>
                        Rest(stack'[Len(stack) - 1], subscribers'[p])
                            = Rest(fr, subscribers[p])]_vars
    /\ [](\A p \in 1..Len(subscribers) :
            ghost[p].revoked \cap CbSet(subscribers[p]) = {})
    /\ [](\A i \in ForEachFrames :
            CbSet(stack[i].invoked) \cap stack[i].dead = {})

\* The first callback of a publish has invoked its own token in its body: it
\* is out of the subscribers, and the publish still has a callback to visit.
C30_Witness ==
    /\ Len(stack) = 2
    /\ published = 1
    /\ Top.kind = "cb"
    /\ Top.cb \in stack[1].removed
    /\ Top.cb \notin CbSet(subscribers[Top.pub])
    /\ Len(stack[1].invoked) = 1
    /\ stack[1].index < Len(subscribers[Top.pub])

\* C31 (as claimed): when an outermost Store.set is about to return, no
\* callback having thrown and nothing having been subscribed or unsubscribed
\* while it ran, the value last delivered to every callback that is subscribed
\* to the Store is the value get() returns.
C31_DeliveredIsRetained ==
    Len(stack) = 1 /\ Returning /\ Top.pub = store /\ ~Top.changed =>
        \A cb \in CbSet(subscribers[store]) :
            ghost[store].delivered[cb] = Store_get(store)

\* C32 (as claimed): the first follower that a Network.publish invokes, after
\* its invocations of subscribers, during which they may have called
\* Network.publish, has not been invoked for a call that began later: the call
\* it last heard of began before this one.
C32_FollowersInCallOrder ==
    \A i \in NetFrames :
        \A j \in 1..Len(stack[i].events) :
            /\ stack[i].events[j].role = "follower"
            /\ \A k \in 1..(j - 1) : stack[i].events[k].role = "subscriber"
            => stack[i].events[j].prev < stack[i].net

\* C33: a step in which a callback throws writes no retained value: for every
\* Store.set that the throw ends, made by Client.set on a key that had a cell,
\* with no later set on that Store, the Store retains the value of the set when
\* the error reaches the code that catches it, and get of the key returns it.
C33_NoRollback ==
    [][ThrowStep =>
        /\ value' = value
        /\ stores' = stores
        /\ \A i \in (Len(stack') + 1)..Len(stack), s \in DOMAIN value, x \in Args :
            /\ stack[i].kind = "forEach"
            /\ stack[i].pub = s
            /\ stack[i].params = <<x>>
            /\ ghost[s].lastSet = x
            => /\ Store_get(s)' = x
               /\ \A key \in Keys :
                    TypedMap_get(stores, key) = s => Client_get(key)' = x]_vars

\* A subscriber invoked for set(key, 1) called set(key, 2) and caught what the
\* first subscriber threw when invoked for it: the second subscriber was not
\* invoked for 2, and get(key) returns 2.
C33_Witness ==
    /\ Len(stack) = 3
    /\ Top.kind = "cb"
    /\ stack[1].kind = "clientSet"
    /\ stack[2].kind = "forEach"
    /\ ~stack[2].changed
    /\ Len(stack[2].snapshot) = 2
    /\ stack[2].params = <<1>>
    /\ published = 2
    /\ Client_get(stack[1].event) = 2
    /\ ghost[stack[2].pub].lastSet = 2
    /\ \E cb \in Range(stack[2].snapshot) :
        ghost[stack[2].pub].delivered[cb] = undefined

\* C34 (as claimed): invoking a token whose registration a clear removed
\* removes no registration.
C34_ClearedTokenIsDead ==
    [][\A t \in 1..Len(tokens) :
        Unsubscribe(t) /\ tokens[t].cleared => subscribers' = subscribers]_vars

\* C35: a Client.set(k1, x) step leaves the Store of every other key, the
\* value it retains and what get returns for it as they were; the Stores of
\* different keys are different objects; the publish to subscribers that a
\* Client.set(k1, x) makes runs on the Store of k1 and invokes only
\* registrations made on that Store, that is by Client.subscribe(k1, cb).
C35_ClientKeyIsolation ==
    /\ [][\A k1 \in Keys, x \in Args :
            Client_set(k1, x) =>
                \A k2 \in Keys \ {k1} :
                    /\ Client_get(k2)' = Client_get(k2)
                    /\ TypedMap_get(stores', k2) = TypedMap_get(stores, k2)
                    /\ TypedMap_has(stores, k2) =>
                        /\ value'[TypedMap_get(stores, k2)]
                                = value[TypedMap_get(stores, k2)]
                        /\ subscribers'[TypedMap_get(stores, k2)]
                                = subscribers[TypedMap_get(stores, k2)]]_vars
    /\ [](\A k1, k2 \in Keys :
            k1 # k2 /\ TypedMap_has(stores, k1) =>
                TypedMap_get(stores, k1) # TypedMap_get(stores, k2))
    /\ [](\A i \in ForEachFrames :
            stack[i].role = "subscriber" /\ stack[i - 1].kind = "clientSet" =>
                /\ stack[i].pub = TypedMap_get(stores, stack[i - 1].event)
                /\ stack[i].params = <<stack[i - 1].net>>
                /\ \A j \in 1..Len(stack[i].invoked) :
                    /\ tokens[stack[i].invoked[j].tok].pub = stack[i].pub
                    /\ tokens[stack[i].invoked[j].tok].cb = stack[i].invoked[j].cb)

\* Both keys have a cell with a value and one subscriber, not the same one; a
\* Client.set on one key has invoked that key's subscriber and no other
\* callback and is about to return; get of the other key returns its value.
C35_Witness ==
    /\ ClientSetReturning
    /\ Len(Top.events) = 1
    /\ Top.events[1].role = "subscriber"
    /\ Client_get(Top.event) = 2
    /\ \E k2 \in Keys \ {Top.event} :
        /\ Client_get(k2) = 1
        /\ Len(subscribers[TypedMap_get(stores, k2)]) = 1
        /\ subscribers[TypedMap_get(stores, k2)][1].cb # Top.events[1].cb

\* C36: a Client.set(key, v) with v the value the key's Store retains calls
\* Store.set(v), which publishes v to all the subscribers the Store has, and
\* then publishes (key, v) to the followers; the retained value stays v.  When
\* the publish to subscribers of such a set returns, every callback subscribed
\* when it began and not taken out while it ran has been invoked once, with v;
\* when the set returns, so has every follower, with (key, v).
C36_EqualValueNotifies ==
    /\ [][\A key \in Keys :
            Client_setRetained(key) =>
                /\ Len(stack') = Len(stack) + 2
                /\ stack'[Len(stack')].kind = "forEach"
                /\ stack'[Len(stack')].pub = TypedMap_get(stores, key)
                /\ stack'[Len(stack')].params = <<Client_get(key)>>
                /\ stack'[Len(stack')].snapshot
                        = Cbs(subscribers[TypedMap_get(stores, key)])
                /\ stack'[Len(stack')].index = 0
                /\ stack'[Len(stack') - 1].kind = "clientSet"
                /\ Len(stack'[Len(stack') - 1].todo) = 1
                /\ stack'[Len(stack') - 1].todo[1].pub = Client_followers
                /\ stack'[Len(stack') - 1].todo[1].params = <<key, Client_get(key)>>
                /\ stack'[Len(stack') - 1].audience = CbSet(subscribers[Client_followers])
                /\ Client_get(key)' = Client_get(key)]_vars
    /\ [](\A i \in ForEachFrames :
            /\ i = Len(stack)
            /\ Returning
            /\ stack[i].role = "subscriber"
            /\ stack[i - 1].kind = "clientSet"
            /\ stack[i - 1].args # <<stack[i - 1].net>>
            => \A cb \in Range(stack[i].snapshot) \ stack[i].removed :
                /\ Count(stack[i].invoked, cb) = 1
                /\ \A j \in 1..Len(stack[i].invoked) :
                    stack[i].invoked[j].cb = cb
                        => stack[i].invoked[j].params = stack[i - 1].args)
    /\ [](ClientSetReturning /\ Top.args # <<Top.net>> =>
            \A cb \in Top.audience \ Top.unfollowed :
                /\ Cardinality(FollowerEvents(Top, cb)) = 1
                /\ \A j \in FollowerEvents(Top, cb) :
                    Top.events[j].params = <<Top.event>> \o Top.args)

\* A key was set, subscribed to and followed, and then set to the value it
\* has: that set has invoked the subscriber and the follower with the value
\* and is about to return.
C36_Witness ==
    /\ ClientSetReturning
    /\ Top.args # <<Top.net>>
    /\ Top.args # <<undefined>>
    /\ Client_get(Top.event) = Top.args[1]
    /\ \E j, k \in 1..Len(Top.events) :
        /\ Top.events[j].role = "subscriber"
        /\ Top.events[j].params = Top.args
        /\ Top.events[k].role = "follower"
        /\ Top.events[k].params = <<Top.event>> \o Top.args

\* The keys of the entries present in Map m, in the order of the list.
Map_keys(m) == [i \in 1..Len(Map_entries(m)) |-> Map_entries(m)[i].key]

\* C37: the list of the Map holds the present keys in the order in which they
\* were inserted: set of an absent key puts it last, set of a present key
\* leaves the order as it is, delete takes the key out.  A forEach during
\* which the Map does not change invokes callbackFn with (value, key) for the
\* entries present when it began, which are those present while it runs, in
\* that order, each once and no other: what it has passed is a prefix of
\* them, and all of them when it returns.
C37_ForEachVisitsAllInOrder ==
    /\ [][/\ \A key \in Keys, val \in Args :
                TypedMapSet(key, val) =>
                    Map_keys(map') = IF Map_has(map, key) THEN Map_keys(map)
                                     ELSE Append(Map_keys(map), key)
          /\ \A key \in Keys :
                TypedMapDelete(key) =>
                    Map_keys(map') = SelectSeq(Map_keys(map), LAMBDA k : k # key)
          /\ TypedMapClear => Map_keys(map') = <<>>]_vars
    /\ [](\A it \in 1..Len(iterators) :
            iterators[it].kind = "forEach" /\ ~iterators[it].changed =>
                LET present == [i \in 1..Len(Map_entries(map)) |->
                                    [key |-> Map_entries(map)[i].key,
                                     value |-> Map_get(map, Map_entries(map)[i].key)]]
                    atCreation == iterators[it].atCreation
                    yielded == iterators[it].yielded
                IN  /\ ~iterators[it].done => atCreation = present
                    /\ Len(yielded) <= Len(atCreation)
                    /\ yielded = SubSeq(atCreation, 1, Len(yielded))
                    /\ iterators[it].done => yielded = atCreation)

\* A forEach on a Map in which a key was deleted and two keys are present
\* has returned, having passed both entries, the Map unchanged meanwhile.
C37_Witness ==
    \E it \in 1..Len(iterators) :
        /\ iterators[it].kind = "forEach"
        /\ iterators[it].done
        /\ ~iterators[it].changed
        /\ Len(iterators[it].yielded) = 2
        /\ Len(map) = 3

\* C38: a TypedMap constructed with initial values has them and no other
\* key.  set(key, val) makes get(key) = val and has(key) true, delete(key)
\* makes get(key) undefined and has(key) false, and both leave get and has of
\* every other key as they were; clear makes get undefined and has false for
\* every key; no other call changes get or has of a key.  A key is present at
\* most once, and has(key) is true exactly when get(key) is a value.
C38_ReferenceMap ==
    /\ \A key \in Keys :
        /\ Map_get(map, key) \in {undefined, 100}
        /\ Map_has(map, key) <=> Map_get(map, key) = 100
    /\ [][/\ \A key \in Keys, val \in Args :
                TypedMapSet(key, val) =>
                    /\ Map_get(map', key) = val
                    /\ Map_has(map', key)
                    /\ \A k2 \in Keys \ {key} :
                        /\ Map_get(map', k2) = Map_get(map, k2)
                        /\ Map_has(map', k2) <=> Map_has(map, k2)
          /\ \A key \in Keys :
                TypedMapDelete(key) =>
                    /\ Map_get(map', key) = undefined
                    /\ ~Map_has(map', key)
                    /\ \A k2 \in Keys \ {key} :
                        /\ Map_get(map', k2) = Map_get(map, k2)
                        /\ Map_has(map', k2) <=> Map_has(map, k2)
          /\ TypedMapClear =>
                \A key \in Keys :
                    Map_get(map', key) = undefined /\ ~Map_has(map', key)
          /\ (\E key \in Keys :
                \/ Map_get(map', key) # Map_get(map, key)
                \/ ~(Map_has(map', key) <=> Map_has(map, key)))
             => \/ \E key \in Keys, val \in Args : TypedMapSet(key, val)
                \/ \E key \in Keys : TypedMapDelete(key)
                \/ TypedMapClear]_vars
    /\ [](\A key \in Keys :
            /\ Cardinality({i \in 1..Len(map) : map[i].key = key}) <= 1
            /\ Map_has(map, key) <=> Map_get(map, key) # undefined)

\* The key given to the constructor was deleted, another key was set and the
\* first key was set again: get returns the values of the two sets.
C38_Witness ==
    /\ Len(map) = 3
    /\ map[1].key = empty
    /\ Map_get(map, "b") = 2
    /\ Map_get(map, "a") = 3

====
